---- MODULE Spec2Model ----
(***************************************************************************)
(* A model of phosphor-commandpalette: the sum-of-squares string search,   *)
(* the <em> highlighter and the StandardPaletteModel item registry with    *)
(* its category/text search.                                               *)
(*                                                                         *)
(* Strings are sequences of one-character strings.  Indices are zero-based *)
(* as in the source; s[k+1] is the character at source index k.            *)
(***************************************************************************)
EXTENDS Integers, Sequences, FiniteSets, TLC

VARIABLES
    sourceText,   \* StringSearch: the sourceText argument
    queryText,    \* StringSearch: the queryText argument
    match,        \* result of the last sumOfSquares call (NoCall before)
    hlIndices,    \* indices argument of the last highlight call
    marked,       \* result of the last highlight call (NotCalled before)
    items,        \* StandardPaletteModel._items
    nextId,       \* identity of the next StandardPaletteItem object created
    op,           \* name of the last model operation called
    args,         \* arguments of the last model operation
    ret,          \* value returned by the last model operation
    emitted,      \* number of changed emissions during the last operation
    observed,     \* this._items as a subscriber read it at each emission
    heap,         \* the array objects: their contents by reference
    itemsRef,     \* the array object this._items refers to
    snapRef,      \* the array object a caller got from items(), 0 if none
    snapOp,       \* name of the last operation on the array objects
    qOp,          \* name of the last query function called
    qArgs,        \* its arguments
    qRet,         \* its return value
    modelItems,   \* the items of the two palette models
    pModel,       \* CommandPalette._model: 1 or 2, 0 for null
    pConnected,   \* the models whose changed signal calls _onModelChanged
    pResults,     \* CommandPalette._results
    pActive,      \* CommandPalette._activeIndex
    pChildren,    \* number of children of the content node
    pInput,       \* value of the input node
    pPending,     \* an update request is posted and not yet processed
    pDisposed,    \* the palette was disposed
    pOp,          \* name of the last palette operation
    pArg,         \* its argument
    pInvoked      \* id of the item whose handler it invoked, 0 if none

strVars == <<sourceText, queryText, match, hlIndices, marked>>
modelVars == <<items, nextId, op, args, ret, emitted, observed>>
snapVars == <<heap, itemsRef, snapRef, snapOp>>
qryVars == <<qOp, qArgs, qRet>>
palVars == <<modelItems, pModel, pConnected, pResults, pActive, pChildren,
             pInput, pPending, pDisposed, pOp, pArg, pInvoked>>
restVars == <<qryVars, palVars>>
vars == <<sourceText, queryText, match, hlIndices, marked,
          items, nextId, op, args, ret, emitted, observed,
          heap, itemsRef, snapRef, snapOp,
          qOp, qArgs, qRet,
          modelItems, pModel, pConnected, pResults, pActive, pChildren,
          pInput, pPending, pDisposed, pOp, pArg, pInvoked>>

----------------------------------------------------------------------------
(* Bounds *)

MaxSrcLen == 4
MaxQryLen == 3
MaxIds == 3
MaxSnapLen == 3
MaxSnapIds == 2
MaxPartLen == 3
MaxRawLen == 5
MaxPalIds == 2

----------------------------------------------------------------------------
(* Generic helpers *)

Min(S) == CHOOSE x \in S : \A y \in S : x <= y
Max(S) == CHOOSE x \in S : \A y \in S : x >= y

StringsUpTo(A, n) == UNION {[1..k -> A] : k \in 0..n}

\* null result of sumOfSquares
Null == [score |-> -1, indices |-> <<>>]
\* null indices array of an IScore
NullIndices == <<-1>>
\* value of match before sumOfSquares was called
NoCall == [score |-> -2, indices |-> <<>>]
\* value of marked before highlight was called
NotCalled == <<"not called">>

PREFIX == "<em>"
SUFFIX == "</em>"

----------------------------------------------------------------------------
(* String primitives of the platform *)

\* String.prototype.indexOf(ch, from) for a one-character ch.
IndexOfLast(s, ch, from) ==
    LET hits == {k \in from..(Len(s) - 1) : s[k + 1] = ch}
    IN  IF hits = {} THEN -1 ELSE Max(hits)

IndexOf(s, ch, from) ==
    LET hits == {k \in from..(Len(s) - 1) : s[k + 1] = ch}
    IN  IF hits = {} THEN -1 ELSE Min(hits)

\* String.prototype.slice(a, b): negative arguments count from the end,
\* both are clamped to the string, an empty range gives "".
SliceIndex(s, a) ==
    IF a < 0 THEN (IF Len(s) + a < 0 THEN 0 ELSE Len(s) + a)
    ELSE IF a > Len(s) THEN Len(s) ELSE a

Slice(s, a, b) ==
    LET from == SliceIndex(s, a)
        to == SliceIndex(s, b)
    IN  IF from >= to THEN <<>> ELSE SubSeq(s, from + 1, to)

----------------------------------------------------------------------------
(* StringSearch.sumOfSquares *)

RECURSIVE SumOfSquaresLoop(_, _, _, _, _, _)
RECURSIVE SumOfSquaresLoopNoAdvance(_, _, _, _, _, _)

\* The loop without the ++j of the increment clause.
SumOfSquaresLoopNoAdvance(src, qry, i, j, score, indices) ==
    IF ~(i < Len(qry)) THEN [score |-> score, indices |-> indices]
    ELSE LET jj == IndexOf(src, qry[i + 1], j)
         IN  IF jj = -1 THEN Null
             ELSE SumOfSquaresLoopNoAdvance(src, qry, i + 1, jj,
                                   score + jj * jj, Append(indices, jj))

\* for (let i = 0, j = 0, n = queryText.length; i < n; ++i, ++j) { ... }
SumOfSquaresLoop(src, qry, i, j, score, indices) ==
    IF ~(i < Len(qry)) THEN [score |-> score, indices |-> indices]
    ELSE LET jj == IndexOf(src, qry[i + 1], j)
         IN  IF jj = -1 THEN Null
             ELSE SumOfSquaresLoop(src, qry, i + 1, jj + 1,
                                   score + jj * jj, Append(indices, jj))

\* A scorer that adds the index instead of its square.
SumOfIndices(src, qry) ==
    LET r == SumOfSquaresLoop(src, qry, 0, 0, 0, <<>>)
        RECURSIVE Sum(_, _)
        Sum(s, k) == IF k = 0 THEN 0 ELSE s[k] + Sum(s, k - 1)
    IN  IF r = Null THEN Null
        ELSE [score |-> Sum(r.indices, Len(r.indices)), indices |-> r.indices]

\* A scorer that reports a failed search as an empty match.
SumOfSquaresNeverNull(src, qry) ==
    LET r == SumOfSquaresLoop(src, qry, 0, 0, 0, <<>>)
    IN  IF r = Null THEN [score |-> 0, indices |-> <<>>] ELSE r

\* A scorer that treats an empty query as no match.
SumOfSquaresEmptyNull(src, qry) ==
    IF qry = <<>> THEN Null ELSE SumOfSquaresLoop(src, qry, 0, 0, 0, <<>>)

SumOfSquares(src, qry) == SumOfSquaresLoop(src, qry, 0, 0, 0, <<>>)

----------------------------------------------------------------------------
(* StringSearch.highlight *)

\* A run scan that never extends a run: one <em> pair per index.
RunEndSingle(indices, k, j) == <<k + 1, j>>

\* while (++k < n && indices[k] === j + 1) j++;
\* k is the value before the first ++k; the result is <<k, j>> at loop exit.
RECURSIVE RunEnd(_, _, _)
RunEnd(indices, k, j) ==
    IF k + 1 < Len(indices) /\ indices[k + 2] = j + 1
    THEN RunEnd(indices, k + 1, j + 1)
    ELSE <<k + 1, j>>

RECURSIVE HighlightLoop(_, _, _, _, _)
HighlightLoop(src, indices, k, last, result) ==
    IF ~(k < Len(indices)) THEN result \o Slice(src, last, Len(src))
    ELSE LET i == indices[k + 1]
             e == RunEnd(indices, k, indices[k + 1])
             j == e[2]
             head == Slice(src, last, i)
             chunk == Slice(src, i, j + 1)
         IN  HighlightLoop(src, indices, e[1], j + 1,
                           result \o head \o <<PREFIX>> \o chunk \o <<SUFFIX>>)

Highlight(src, indices) == HighlightLoop(src, indices, 0, 0, <<>>)

----------------------------------------------------------------------------
(* The string-search specification: inputs drawn at Init, functions applied *)

SSAlphabet == {"a", "b"}

\* strictly increasing, in-bounds index lists for a source of length n
IncreasingIndices(n) ==
    {ix \in StringsUpTo(0..(n - 1), n) :
        \A p \in 1..(Len(ix) - 1) : ix[p] < ix[p + 1]}

\* references of array objects; two are reachable at any time, the third
\* is the one being allocated
ArrayRefs == {1, 2, 3}

QryIdle ==
    /\ qOp = "new"
    /\ qArgs = <<>>
    /\ qRet = <<>>

\* a palette as constructed, and two empty models
PalIdle ==
    /\ modelItems = <<  <<>>, <<>>  >>
    /\ pModel = 0
    /\ pConnected = {}
    /\ pResults = <<>>
    /\ pActive = -1
    /\ pChildren = 0
    /\ pInput = <<>>
    /\ pPending = FALSE
    /\ pDisposed = FALSE
    /\ pOp = "new"
    /\ pArg = <<>>
    /\ pInvoked = 0

RestIdle == QryIdle /\ PalIdle

SnapIdle ==
    /\ heap = [r \in ArrayRefs |-> <<>>]
    /\ itemsRef = 1
    /\ snapRef = 0
    /\ snapOp = "new"

ModelIdle ==
    /\ items = <<>>
    /\ nextId = 1
    /\ op = "new"
    /\ args = <<>>
    /\ ret = <<>>
    /\ emitted = 0
    /\ observed = <<>>

InitStr ==
    /\ sourceText \in StringsUpTo(SSAlphabet, MaxSrcLen)
    /\ queryText \in StringsUpTo(SSAlphabet, MaxQryLen)
    /\ match = NoCall
    /\ hlIndices = <<>>
    /\ marked = NotCalled
    /\ ModelIdle
    /\ SnapIdle
    /\ RestIdle

CallSumOfSquares ==
    /\ match' = SumOfSquares(sourceText, queryText)
    /\ UNCHANGED <<sourceText, queryText, hlIndices, marked>>
    /\ UNCHANGED modelVars
    /\ UNCHANGED snapVars
    /\ UNCHANGED restVars

CallHighlight ==
    /\ \E ix \in IncreasingIndices(Len(sourceText)) :
          /\ hlIndices' = ix
          /\ marked' = Highlight(sourceText, ix)
    /\ UNCHANGED <<sourceText, queryText, match>>
    /\ UNCHANGED modelVars
    /\ UNCHANGED snapVars
    /\ UNCHANGED restVars

NextStr == CallSumOfSquares \/ CallHighlight

SpecStr == InitStr /\ [][NextStr]_vars

\* index lists as a caller that does not keep the contract may pass them:
\* any numbers from -1 to one past the longest source
AnyIndices == StringsUpTo(-1..(MaxSrcLen + 1), 2)

\* the value of marked if highlight threw; highlight has no throw statement
\* and calls only String.prototype.slice, which clamps its arguments
Thrown == <<"throws">>

\* highlight called without regard to its contract on the indices
CallHighlightUnchecked ==
    /\ \E ix \in AnyIndices :
          /\ hlIndices' = ix
          /\ marked' = Highlight(sourceText, ix)
    /\ UNCHANGED <<sourceText, queryText, match>>
    /\ UNCHANGED modelVars
    /\ UNCHANGED snapVars
    /\ UNCHANGED restVars

NextHl == CallHighlightUnchecked

SpecHl == InitStr /\ [][NextHl]_vars

----------------------------------------------------------------------------
(* Character classes and string conversions of the platform *)

IsSpace(ch) == ch = " "

\* one character of String.prototype.toLowerCase
LowerChar(ch) ==
    CASE ch = "A" -> "a"
      [] ch = "B" -> "b"
      [] OTHER -> ch

ToLowerCase(s) == [p \in 1..Len(s) |-> LowerChar(s[p])]

RECURSIVE TrimStart(_)
TrimStart(s) ==
    IF s # <<>> /\ IsSpace(Head(s)) THEN TrimStart(Tail(s)) ELSE s

RECURSIVE TrimEnd(_)
TrimEnd(s) ==
    IF s # <<>> /\ IsSpace(s[Len(s)])
    THEN TrimEnd(SubSeq(s, 1, Len(s) - 1)) ELSE s

\* String.prototype.trim
Trim(s) == TrimEnd(TrimStart(s))

\* s.replace(/\s+/g, ' '): every whitespace run becomes one space
RECURSIVE CollapseSpaces(_)
CollapseSpaces(s) ==
    IF s = <<>> THEN <<>>
    ELSE IF IsSpace(Head(s))
         THEN <<" ">> \o CollapseSpaces(TrimStart(s))
         ELSE <<Head(s)>> \o CollapseSpaces(Tail(s))

\* s.replace(/\s+/g, ''): every whitespace run is removed
RECURSIVE RemoveSpaces(_)
RemoveSpaces(s) ==
    IF s = <<>> THEN <<>>
    ELSE IF IsSpace(Head(s)) THEN RemoveSpaces(Tail(s))
         ELSE <<Head(s)>> \o RemoveSpaces(Tail(s))

\* the characters that occur in the model
Chars == {" ", "0", "1", "2", "A", "B", "a", "b"}

\* Collation of String.prototype.localeCompare: the primary weight of a
\* character ignores its case (space < digits < letters); strings with equal
\* primary weights are ordered by case, lower case first.
PrimaryWeight ==
    [ch \in Chars |->
        CASE ch = " " -> 0
          [] ch = "0" -> 1
          [] ch = "1" -> 2
          [] ch = "2" -> 3
          [] ch \in {"a", "A"} -> 4
          [] OTHER -> 5]

CaseWeight == [ch \in Chars |-> IF ch \in {"A", "B"} THEN 1 ELSE 0]

\* code unit order, upper case before lower case
CodeUnit ==
    [ch \in Chars |->
        CASE ch = " " -> 32
          [] ch = "0" -> 48
          [] ch = "1" -> 49
          [] ch = "2" -> 50
          [] ch = "A" -> 65
          [] ch = "B" -> 66
          [] ch = "a" -> 97
          [] OTHER -> 98]

\* compare a and b from position p on by the weights W of their characters
RECURSIVE CompareBy(_, _, _, _)
CompareBy(W, a, b, p) ==
    IF p > Len(a) /\ p > Len(b) THEN 0
    ELSE IF p > Len(a) THEN -1
    ELSE IF p > Len(b) THEN 1
    ELSE IF W[a[p]] # W[b[p]] THEN W[a[p]] - W[b[p]]
    ELSE CompareBy(W, a, b, p + 1)

\* a comparison by code units instead of by locale
CodeUnitCompare(a, b) == CompareBy(CodeUnit, a, b, 1)

LocaleCompare(a, b) ==
    LET d == CompareBy(PrimaryWeight, a, b, 1)
    IN  IF d # 0 THEN d ELSE CompareBy(CaseWeight, a, b, 1)

----------------------------------------------------------------------------
(* StandardPaletteItem and the Private namespace of the standard model *)

Undefined == [key |-> <<"undefined">>, score |-> -1, indices |-> NullIndices]

\* A category normalization that trims but keeps inner whitespace runs.
NormalizeCategoryTrimOnly(category) == ToLowerCase(Trim(category))

\* Private.normalizeCategory
NormalizeCategory(category) == ToLowerCase(CollapseSpaces(Trim(category)))

\* A query normalization that trims and collapses whitespace runs instead
\* of removing them.
NormalizeQueryTextCollapsing(text) == ToLowerCase(CollapseSpaces(Trim(text)))

\* A query normalization that keeps the case of the query.
NormalizeQueryTextKeepCase(text) == RemoveSpaces(text)

\* Private.normalizeQueryText
NormalizeQueryText(text) == ToLowerCase(RemoveSpaces(text))

\* new StandardPaletteItem(options): id is the identity of the new object
\* and stands for the fields search passes through unchanged (handler, args,
\* icon, caption, shortcut, className).
NewItem(id, options) ==
    [id |-> id, text |-> options.text,
     category |-> NormalizeCategory(options.category)]

\* map[key] of a StringMap kept as a sequence of entries in insertion order
RECURSIVE MapGet(_, _)
MapGet(map, key) ==
    IF map = <<>> THEN Undefined
    ELSE IF Head(map).key = key THEN Head(map)
    ELSE MapGet(Tail(map), key)

MapHas(map, key) == \E p \in 1..Len(map) : map[p].key = key

\* The loop of Private.matchCategory over the items; query is normalized.
RECURSIVE MatchCategoryLoop(_, _, _, _, _)
MatchCategoryLoop(its, query, p, seen, matched) ==
    IF p > Len(its) THEN matched
    ELSE LET category == its[p].category
             m == SumOfSquares(category, query)
         IN  IF category \in seen
             THEN MatchCategoryLoop(its, query, p + 1, seen, matched)
             ELSE IF query = <<>>
             THEN MatchCategoryLoop(its, query, p + 1, seen \cup {category},
                      Append(matched, [key |-> category, score |-> 0,
                                       indices |-> NullIndices]))
             ELSE IF m = Null
             THEN MatchCategoryLoop(its, query, p + 1, seen \cup {category},
                                    matched)
             ELSE MatchCategoryLoop(its, query, p + 1, seen \cup {category},
                      Append(matched, [key |-> category, score |-> m.score,
                                       indices |-> m.indices]))

\* A category matcher that drops the query: every category matches.
MatchCategoryNoQuery(its, query) ==
    MatchCategoryLoop(its, <<>>, 1, {}, <<>>)

\* Private.matchCategory
MatchCategory(its, query) ==
    MatchCategoryLoop(its, NormalizeQueryText(query), 1, {}, <<>>)

\* The item text without the toLowerCase call.
ItemSearchTextKeepCase(item) == item.text

\* item.text.toLowerCase(), the text the query is matched against
ItemSearchText(item) == ToLowerCase(item.text)

\* The loop of Private.matchText over the items; query is normalized.
RECURSIVE MatchTextLoop(_, _, _, _, _)
MatchTextLoop(its, query, categories, p, scores) ==
    IF p > Len(its) THEN scores
    ELSE LET item == its[p]
             cs == MapGet(categories, item.category)
             m == SumOfSquares(ItemSearchText(item), query)
         IN  IF cs = Undefined
             THEN MatchTextLoop(its, query, categories, p + 1, scores)
             ELSE IF query = <<>>
             THEN MatchTextLoop(its, query, categories, p + 1,
                      Append(scores, [score |-> cs.score,
                                      indices |-> NullIndices, item |-> item]))
             ELSE IF m = Null
             THEN MatchTextLoop(its, query, categories, p + 1, scores)
             ELSE MatchTextLoop(its, query, categories, p + 1,
                      Append(scores, [score |-> cs.score + m.score,
                                      indices |-> m.indices, item |-> item]))

\* Private.matchText
MatchText(its, query, categories) ==
    MatchTextLoop(its, NormalizeQueryText(query), categories, 1, <<>>)

\* A comparison that orders ties of score and category by code units.
ScoreCmpCodeUnits(a, b) ==
    LET d1 == a.score - b.score
        d2 == LocaleCompare(a.item.category, b.item.category)
    IN  IF d1 # 0 THEN d1
        ELSE IF d2 # 0 THEN d2
        ELSE CodeUnitCompare(a.item.text, b.item.text)

\* Private.scoreCmp
ScoreCmp(a, b) ==
    LET d1 == a.score - b.score
        d2 == LocaleCompare(a.item.category, b.item.category)
    IN  IF d1 # 0 THEN d1
        ELSE IF d2 # 0 THEN d2
        ELSE LocaleCompare(a.item.text, b.item.text)

\* Array.prototype.sort with Private.scoreCmp: elements that compare equal
\* keep their order.
RECURSIVE InsertSorted(_, _)
InsertSorted(sorted, x) ==
    IF sorted = <<>> THEN <<x>>
    ELSE IF ScoreCmp(Head(sorted), x) <= 0
         THEN <<Head(sorted)>> \o InsertSorted(Tail(sorted), x)
         ELSE <<x>> \o sorted

RECURSIVE SortScores(_)
SortScores(scores) ==
    IF scores = <<>> THEN <<>>
    ELSE InsertSorted(SortScores(SubSeq(scores, 1, Len(scores) - 1)),
                      scores[Len(scores)])

\* (result[cat] || (result[cat] = [])).push(score)
GroupPush(result, cat, score) ==
    IF MapHas(result, cat)
    THEN [p \in 1..Len(result) |->
            IF result[p].key = cat
            THEN [key |-> cat, group |-> Append(result[p].group, score)]
            ELSE result[p]]
    ELSE Append(result, [key |-> cat, group |-> <<score>>])

\* Private.groupScores
RECURSIVE GroupScoresLoop(_, _, _)
GroupScoresLoop(scores, p, result) ==
    IF p > Len(scores) THEN result
    ELSE GroupScoresLoop(scores, p + 1,
                         GroupPush(result, scores[p].item.category, scores[p]))

GroupScores(scores) == GroupScoresLoop(scores, 1, <<>>)

\* Property enumeration order of for-in: keys that are canonical array
\* indices come first in ascending numeric order, the other keys follow in
\* insertion order.
IsDigit(ch) == ch \in {"0", "1", "2"}

DigitValue(ch) == CASE ch = "0" -> 0 [] ch = "1" -> 1 [] OTHER -> 2

IsArrayIndex(key) ==
    /\ key # <<>>
    /\ \A p \in 1..Len(key) : IsDigit(key[p])
    /\ (Len(key) > 1 => key[1] # "0")

RECURSIVE ToNumber(_)
ToNumber(key) ==
    IF key = <<>> THEN 0
    ELSE 10 * ToNumber(SubSeq(key, 1, Len(key) - 1)) + DigitValue(key[Len(key)])

RECURSIVE IndexKeysAscending(_)
IndexKeysAscending(keys) ==
    IF keys = {} THEN <<>>
    ELSE LET k == CHOOSE x \in keys :
                     \A y \in keys : ToNumber(x) <= ToNumber(y)
         IN  <<k>> \o IndexKeysAscending(keys \ {k})

RECURSIVE OtherKeys(_)
OtherKeys(map) ==
    IF map = <<>> THEN <<>>
    ELSE IF IsArrayIndex(Head(map).key) THEN OtherKeys(Tail(map))
         ELSE <<Head(map).key>> \o OtherKeys(Tail(map))

ForInKeys(map) ==
    IndexKeysAscending({map[p].key : p \in {q \in 1..Len(map) :
                                              IsArrayIndex(map[q].key)}})
    \o OtherKeys(map)

\* Private.highlightText
HighlightText(text, indices) ==
    IF indices # NullIndices THEN Highlight(text, indices) ELSE text

\* Private.createHeaderResult
CreateHeaderResult(category, score) ==
    [type |-> "Header", text |-> HighlightText(category, score.indices),
     category |-> category]

\* Private.createCommandResult
CreateCommandResult(score) ==
    [type |-> "Command", text |-> HighlightText(score.item.text, score.indices),
     id |-> score.item.id]

CommandResults(group) == [p \in 1..Len(group) |-> CreateCommandResult(group[p])]

RECURSIVE RenderKeys(_, _, _)
RenderKeys(keys, groups, categories) ==
    IF keys = <<>> THEN <<>>
    ELSE <<CreateHeaderResult(Head(keys), MapGet(categories, Head(keys)))>>
         \o (IF MapHas(groups, Head(keys))
             THEN CommandResults(MapGet(groups, Head(keys)).group)
             ELSE <<>>)
         \o RenderKeys(Tail(keys), groups, categories)

\* A renderer that walks the category map instead of the groups.
CreateSearchResultsOfCategories(groups, categories) ==
    RenderKeys(ForInKeys(categories), groups, categories)

\* Private.createSearchResults
CreateSearchResults(groups, categories) ==
    RenderKeys(ForInKeys(groups), groups, categories)

\* StandardPaletteModel.search
Search(its, category, text) ==
    LET catmap == MatchCategory(its, category)
        scores == MatchText(its, text, catmap)
        sorted == SortScores(scores)
        groups == GroupScores(sorted)
    IN  CreateSearchResults(groups, catmap)

----------------------------------------------------------------------------
(* StandardPaletteModel: the item registry and its operations *)

MaxBatch == 2

Texts == { <<"a", "b">>, <<"B", "a">> }

\* options.category as given by the caller; <<>> is an absent category
RawCategories ==
    { <<>>, <<"a", " ", "b">>, <<" ", "A", " ", " ", "b">>, <<"2">>,
      <<"1", "0">> }

ItemOptions == [text : Texts, category : RawCategories]

CategoryQueries ==
    { <<>>, <<" ">>, <<"1", " ", "0">>, <<"A", "b">> }

TextQueries ==
    { <<>>, <<" ">>, <<"b">>, <<"A", " ", "b">> }

StrIdle ==
    /\ sourceText = <<>>
    /\ queryText = <<>>
    /\ match = NoCall
    /\ hlIndices = <<>>
    /\ marked = NotCalled

Init ==
    /\ items = <<>>
    /\ nextId = 1
    /\ op = "new"
    /\ args = <<>>
    /\ ret = <<>>
    /\ emitted = 0
    /\ observed = <<>>
    /\ StrIdle
    /\ SnapIdle
    /\ RestIdle

\* arrays.remove(array, value): the index of the first occurrence, or -1
ArrayIndexOf(array, id) ==
    LET hits == {p \in 1..Len(array) : array[p].id = id}
    IN  IF hits = {} THEN -1 ELSE Min(hits) - 1

\* removal that fills the hole with the last element.
RemoveAtSwap(array, i) ==
    IF i + 1 = Len(array) THEN SubSeq(array, 1, i)
    ELSE SubSeq(array, 1, i) \o <<array[Len(array)]>>
            \o SubSeq(array, i + 2, Len(array) - 1)

RemoveAt(array, i) ==
    SubSeq(array, 1, i) \o SubSeq(array, i + 2, Len(array))

\* this._items.filter(other => items.indexOf(other) === -1)
RECURSIVE FilterOut(_, _)
FilterOut(array, ids) ==
    IF array = <<>> THEN <<>>
    ELSE IF Head(array).id \in ids THEN FilterOut(Tail(array), ids)
         ELSE <<Head(array)>> \o FilterOut(Tail(array), ids)

\* options.map(opts => new StandardPaletteItem(opts))
NewItems(first, options) ==
    [p \in 1..Len(options) |-> NewItem(first + p - 1, options[p])]

AddItem ==
    /\ nextId <= MaxIds
    /\ \E options \in ItemOptions :
          LET item == NewItem(nextId, options)
          IN  /\ items' = Append(items, item)
              /\ ret' = item
              /\ args' = <<options>>
              /\ observed' = <<Append(items, item)>>
    /\ nextId' = nextId + 1
    /\ emitted' = 1
    /\ op' = "addItem"
    /\ UNCHANGED strVars
    /\ UNCHANGED snapVars
    /\ UNCHANGED restVars

\* addItems emitting changed once per added item.
AddItemsEmitPerItem ==
    /\ \E options \in StringsUpTo(ItemOptions, MaxBatch) :
          LET new == NewItems(nextId, options)
          IN  /\ nextId + Len(options) - 1 <= MaxIds
              /\ items' = items \o new
              /\ nextId' = nextId + Len(options)
              /\ ret' = new
              /\ args' = <<options>>
              /\ emitted' = Len(options)
              /\ observed' = [k \in 1..Len(options) |-> items \o new]
    /\ op' = "addItems"
    /\ UNCHANGED strVars
    /\ UNCHANGED snapVars
    /\ UNCHANGED restVars

AddItems ==
    /\ \E options \in StringsUpTo(ItemOptions, MaxBatch) :
          LET new == NewItems(nextId, options)
          IN  /\ nextId + Len(options) - 1 <= MaxIds
              /\ items' = items \o new
              /\ nextId' = nextId + Len(options)
              /\ ret' = new
              /\ args' = <<options>>
              /\ observed' = <<items \o new>>
    /\ emitted' = 1
    /\ op' = "addItems"
    /\ UNCHANGED strVars
    /\ UNCHANGED snapVars
    /\ UNCHANGED restVars

\* the item is one created by this model (1 .. nextId-1) or a foreign one (0)
RemoveItem ==
    /\ \E id \in 0..(nextId - 1) :
          LET i == ArrayIndexOf(items, id)
          IN  /\ items' = IF i # -1 THEN RemoveAt(items, i) ELSE items
              /\ emitted' = IF i # -1 THEN 1 ELSE 0
              /\ observed' = IF i # -1 THEN <<RemoveAt(items, i)>> ELSE <<>>
              /\ args' = <<id>>
    /\ op' = "removeItem"
    /\ ret' = <<>>
    /\ UNCHANGED <<nextId>>
    /\ UNCHANGED strVars
    /\ UNCHANGED snapVars
    /\ UNCHANGED restVars

RemoveItems ==
    /\ \E ids \in SUBSET (0..(nextId - 1)) :
          LET rest == FilterOut(items, ids)
          IN  /\ IF Len(rest) = Len(items)
                 THEN /\ items' = items
                      /\ emitted' = 0
                      /\ observed' = <<>>
                 ELSE /\ items' = rest
                      /\ emitted' = 1
                      /\ observed' = <<rest>>
              /\ args' = <<ids>>
    /\ op' = "removeItems"
    /\ ret' = <<>>
    /\ UNCHANGED <<nextId>>
    /\ UNCHANGED strVars
    /\ UNCHANGED snapVars
    /\ UNCHANGED restVars

\* clearItems without the early return for an empty model.
ClearItemsAlwaysEmits ==
    /\ items' = <<>>
    /\ emitted' = 1
    /\ observed' = << <<>> >>
    /\ op' = "clearItems"
    /\ args' = <<>>
    /\ ret' = <<>>
    /\ UNCHANGED <<nextId>>
    /\ UNCHANGED strVars
    /\ UNCHANGED snapVars
    /\ UNCHANGED restVars

\* clearItems emitting changed before it empties the array.
ClearItemsEmitsFirst ==
    /\ IF Len(items) = 0
       THEN /\ items' = items
            /\ emitted' = 0
            /\ observed' = <<>>
       ELSE /\ items' = <<>>
            /\ emitted' = 1
            /\ observed' = <<items>>
    /\ op' = "clearItems"
    /\ args' = <<>>
    /\ ret' = <<>>
    /\ UNCHANGED <<nextId>>
    /\ UNCHANGED strVars
    /\ UNCHANGED snapVars
    /\ UNCHANGED restVars

ClearItems ==
    /\ IF Len(items) = 0
       THEN /\ items' = items
            /\ emitted' = 0
            /\ observed' = <<>>
       ELSE /\ items' = <<>>
            /\ emitted' = 1
            /\ observed' = << <<>> >>
    /\ op' = "clearItems"
    /\ args' = <<>>
    /\ ret' = <<>>
    /\ UNCHANGED <<nextId>>
    /\ UNCHANGED strVars
    /\ UNCHANGED snapVars
    /\ UNCHANGED restVars

\* A search that sorts this._items itself instead of the array of scores.
DoSearchSortingItems ==
    /\ \E category \in CategoryQueries, text \in TextQueries :
          /\ args' = <<category, text>>
          /\ ret' = Search(items, category, text)
    /\ LET sorted == SortScores([p \in 1..Len(items) |->
                          [score |-> 0, indices |-> NullIndices,
                           item |-> items[p]]])
       IN  items' = [p \in 1..Len(items) |-> sorted[p].item]
    /\ op' = "search"
    /\ emitted' = 0
    /\ observed' = <<>>
    /\ UNCHANGED <<nextId>>
    /\ UNCHANGED strVars
    /\ UNCHANGED snapVars
    /\ UNCHANGED restVars

DoSearch ==
    /\ \E category \in CategoryQueries, text \in TextQueries :
          /\ args' = <<category, text>>
          /\ ret' = Search(items, category, text)
    /\ op' = "search"
    /\ emitted' = 0
    /\ observed' = <<>>
    /\ UNCHANGED <<items, nextId>>
    /\ UNCHANGED strVars
    /\ UNCHANGED snapVars
    /\ UNCHANGED restVars

Next ==
    \/ AddItem
    \/ AddItems
    \/ RemoveItem
    \/ RemoveItems
    \/ ClearItems
    \/ DoSearch

Spec == Init /\ [][Next]_vars

----------------------------------------------------------------------------
(* StandardPaletteModel with its arrays as objects: which operations write  *)
(* an array in place, which create a new one, and what items() hands out    *)

SnapOptions ==
    { [text |-> <<"a", "b">>, category |-> <<>>],
      [text |-> <<"B", "a">>, category |-> <<"2">>] }

\* an item the caller created outside the model
ForeignItem == [id |-> 0, text |-> <<"a", "b">>, category |-> <<>>]

\* a reference no variable holds: the object of a new array
FreshRef == CHOOSE r \in ArrayRefs : r # itemsRef /\ r # snapRef

\* the heap with the arrays that no variable refers to any more dropped
Collect(h, roots) == [r \in ArrayRefs |-> IF r \in roots THEN h[r] ELSE <<>>]

InitSnap ==
    /\ SnapIdle
    /\ RestIdle
    /\ ModelIdle
    /\ StrIdle

SnapFrame ==
    /\ UNCHANGED <<items, op, args, ret, emitted, observed>>
    /\ UNCHANGED strVars
    /\ UNCHANGED restVars

\* items() returning this._items itself instead of a copy.
SnapItemsNoCopy ==
    /\ snapRef' = itemsRef
    /\ heap' = Collect(heap, {itemsRef})
    /\ snapOp' = "items"
    /\ UNCHANGED <<itemsRef, nextId>>
    /\ SnapFrame

\* items(): this._items.slice() is a new array with the same elements
SnapItems ==
    /\ snapRef' = FreshRef
    /\ heap' = Collect([heap EXCEPT ![FreshRef] = heap[itemsRef]],
                       {itemsRef, FreshRef})
    /\ snapOp' = "items"
    /\ UNCHANGED <<itemsRef, nextId>>
    /\ SnapFrame

\* addItem: this._items.push(item) writes the array in place
SnapAddItem ==
    /\ nextId <= MaxSnapIds
    /\ \E options \in SnapOptions :
          heap' = [heap EXCEPT ![itemsRef] = Append(@, NewItem(nextId, options))]
    /\ nextId' = nextId + 1
    /\ snapOp' = "addItem"
    /\ UNCHANGED <<itemsRef, snapRef>>
    /\ SnapFrame

\* addItems: Array.prototype.push.apply(this._items, items) writes in place
SnapAddItems ==
    /\ \E options \in StringsUpTo(SnapOptions, MaxBatch) :
          /\ nextId + Len(options) - 1 <= MaxSnapIds
          /\ heap' = [heap EXCEPT ![itemsRef] = @ \o NewItems(nextId, options)]
          /\ nextId' = nextId + Len(options)
    /\ snapOp' = "addItems"
    /\ UNCHANGED <<itemsRef, snapRef>>
    /\ SnapFrame

\* removeItem: arrays.remove(this._items, item) removes in place
SnapRemoveItem ==
    /\ \E id \in 0..(nextId - 1) :
          LET i == ArrayIndexOf(heap[itemsRef], id)
          IN  heap' = IF i # -1
                      THEN [heap EXCEPT ![itemsRef] = RemoveAt(@, i)]
                      ELSE heap
    /\ snapOp' = "removeItem"
    /\ UNCHANGED <<itemsRef, snapRef, nextId>>
    /\ SnapFrame

\* removeItems: filter creates a new array, which replaces this._items
\* unless nothing was removed
SnapRemoveItems ==
    /\ \E ids \in SUBSET (0..(nextId - 1)) :
          LET rest == FilterOut(heap[itemsRef], ids)
          IN  IF Len(rest) = Len(heap[itemsRef])
              THEN /\ itemsRef' = itemsRef
                   /\ heap' = heap
              ELSE /\ itemsRef' = FreshRef
                   /\ heap' = Collect([heap EXCEPT ![FreshRef] = rest],
                                      {FreshRef, snapRef})
    /\ snapOp' = "removeItems"
    /\ UNCHANGED <<snapRef, nextId>>
    /\ SnapFrame

\* clearItems: this._items.length = 0 empties the array in place
SnapClearItems ==
    /\ heap' = IF Len(heap[itemsRef]) = 0 THEN heap
               ELSE [heap EXCEPT ![itemsRef] = <<>>]
    /\ snapOp' = "clearItems"
    /\ UNCHANGED <<itemsRef, snapRef, nextId>>
    /\ SnapFrame

\* the caller pushes an item of its own onto the array it got from items()
CallerPush ==
    /\ snapRef # 0
    /\ Len(heap[snapRef]) < MaxSnapLen
    /\ heap' = [heap EXCEPT ![snapRef] = Append(@, ForeignItem)]
    /\ snapOp' = "push"
    /\ UNCHANGED <<itemsRef, snapRef, nextId>>
    /\ SnapFrame

\* the caller splices one element out of the array it got from items()
CallerSplice ==
    /\ snapRef # 0
    /\ \E i \in 0..(Len(heap[snapRef]) - 1) :
          heap' = [heap EXCEPT ![snapRef] = RemoveAt(@, i)]
    /\ snapOp' = "splice"
    /\ UNCHANGED <<itemsRef, snapRef, nextId>>
    /\ SnapFrame

\* the caller sets the length of the array it got from items() to 0
CallerTruncate ==
    /\ snapRef # 0
    /\ heap[snapRef] # <<>>
    /\ heap' = [heap EXCEPT ![snapRef] = <<>>]
    /\ snapOp' = "truncate"
    /\ UNCHANGED <<itemsRef, snapRef, nextId>>
    /\ SnapFrame

NextSnap ==
    \/ SnapItems
    \/ SnapAddItem
    \/ SnapAddItems
    \/ SnapRemoveItem
    \/ SnapRemoveItems
    \/ SnapClearItems
    \/ CallerPush
    \/ CallerSplice
    \/ CallerTruncate

SpecSnap == InitSnap /\ [][NextSnap]_vars

----------------------------------------------------------------------------
(* AbstractPaletteModel.splitQuery and joinQuery *)

\* splitQuery without the trims of the two slices.
SplitQueryNoTrim(query) ==
    LET i == IndexOf(query, ":", 0)
    IN  IF i = -1 THEN [category |-> <<>>, text |-> Trim(query)]
        ELSE [category |-> Slice(query, 0, i),
              text |-> Slice(query, i + 1, Len(query))]

SplitQuery(query) ==
    LET i == IndexOf(query, ":", 0)
    IN  IF i = -1 THEN [category |-> <<>>, text |-> Trim(query)]
        ELSE [category |-> Trim(Slice(query, 0, i)),
              text |-> Trim(Slice(query, i + 1, Len(query)))]

\* `${category.trim()}: ${text.trim()}`
JoinQuery(category, text) == Trim(category) \o <<":", " ">> \o Trim(text)

QueryAlphabet == {"a", "b", " ", ":"}

\* the arguments of the call to come: one raw query for splitQuery, or a
\* category and a text for joinQuery
InitQry ==
    /\ qOp = "new"
    /\ qRet = <<>>
    /\ \/ \E query \in StringsUpTo(QueryAlphabet, MaxRawLen) :
             qArgs = <<query>>
       \/ \E category, text \in StringsUpTo(QueryAlphabet, MaxPartLen) :
             qArgs = <<category, text>>
    /\ PalIdle
    /\ SnapIdle
    /\ ModelIdle
    /\ StrIdle

QryFrame ==
    /\ UNCHANGED palVars
    /\ UNCHANGED modelVars
    /\ UNCHANGED strVars
    /\ UNCHANGED snapVars

CallSplitQuery ==
    /\ qOp = "new"
    /\ Len(qArgs) = 1
    /\ qRet' = SplitQuery(qArgs[1])
    /\ qOp' = "splitQuery"
    /\ UNCHANGED qArgs
    /\ QryFrame

CallJoinQuery ==
    /\ qOp = "new"
    /\ Len(qArgs) = 2
    /\ qRet' = JoinQuery(qArgs[1], qArgs[2])
    /\ qOp' = "joinQuery"
    /\ UNCHANGED qArgs
    /\ QryFrame

\* splitQuery applied to the string the last joinQuery returned
CallSplitJoined ==
    /\ qOp = "joinQuery"
    /\ qRet' = SplitQuery(qRet)
    /\ qOp' = "splitJoined"
    /\ UNCHANGED qArgs
    /\ QryFrame

NextQry ==
    \/ CallSplitQuery
    \/ CallJoinQuery
    \/ CallSplitJoined

SpecQry == InitQry /\ [][NextQry]_vars

----------------------------------------------------------------------------
(* CommandPalette: the widget's query functions *)

\* CommandPalette.splitQuery: a query of the form (:<category>:)?<text>
CommandPaletteSplitQuery(query) ==
    LET q == Trim(query)
        i == IndexOf(q, ":", 1)
    IN  IF q = <<>> \/ q[1] # ":" THEN [category |-> <<>>, text |-> q]
        ELSE IF i = -1
             THEN [category |-> Trim(Slice(q, 1, Len(q))), text |-> <<>>]
             ELSE [category |-> Trim(Slice(q, 1, i)),
                   text |-> Trim(Slice(q, i + 1, Len(q)))]

\* CommandPalette.joinQuery: an empty string is the only falsy string
CommandPaletteJoinQuery(category, text) ==
    IF category # <<>> /\ text # <<>>
    THEN <<":">> \o Trim(category) \o <<":", " ">> \o Trim(text)
    ELSE IF category # <<>>
         THEN <<":">> \o Trim(category) \o <<":", " ">>
         ELSE IF text # <<>> THEN Trim(text) ELSE <<>>

----------------------------------------------------------------------------
(* CommandPalette: model assignment, update requests and activation *)

PalModels == {1, 2}

PalOptions ==
    { [text |-> <<"a", "b">>, category |-> <<"a">>],
      [text |-> <<"B", "a">>, category |-> <<>>] }

\* values the user types into the input node
PalInputs ==
    { <<>>, <<"b">>, <<":", "a", ":", " ", "b">>, <<":", "a", ":", ":", "b">> }

\* ActivationTarget
Targets == {"Any", "Header", "Command"}

\* arrays.findIndex(array, pred): index of the first result of the type
FindIndex(results, type) ==
    LET hits == {i \in 0..(Len(results) - 1) : results[i + 1].type = type}
    IN  IF hits = {} THEN -1 ELSE Min(hits)

\* arrays.rfindIndex(array, pred): index of the last result of the type
RFindIndex(results, type) ==
    LET hits == {i \in 0..(Len(results) - 1) : results[i + 1].type = type}
    IN  IF hits = {} THEN -1 ELSE Max(hits)

\* arrays.findIndex(array, pred, start, true): forward from start, wrapping
FindIndexWrap(results, type, start) ==
    LET n == Len(results)
        hits == {i \in 0..(n - 1) : results[((start + i) % n) + 1].type = type}
    IN  IF start < 0 \/ start >= n \/ hits = {} THEN -1
        ELSE (start + Min(hits)) % n

\* arrays.rfindIndex(array, pred, start, true): backward from start, wrapping
RFindIndexWrap(results, type, start) ==
    LET n == Len(results)
        hits == {i \in 0..(n - 1) :
                    results[((start - i + n) % n) + 1].type = type}
    IN  IF start < 0 \/ start >= n \/ hits = {} THEN -1
        ELSE (start - Min(hits) + n) % n

\* _activate: the new value of _activeIndex; the bound is the number of
\* children of the content node
Activate(index, children) ==
    IF index < 0 \/ index >= children THEN -1 ELSE index

InitPal ==
    /\ PalIdle
    /\ QryIdle
    /\ SnapIdle
    /\ ModelIdle
    /\ StrIdle

PalFrame ==
    /\ UNCHANGED <<items, op, args, ret, emitted, observed>>
    /\ UNCHANGED strVars
    /\ UNCHANGED snapVars
    /\ UNCHANGED qryVars

\* the model setter leaving the old model's changed signal connected.
SetModelKeepsOld ==
    /\ ~pDisposed
    /\ \E value \in {0} \cup PalModels :
          /\ pArg' = value
          /\ IF pModel = value
             THEN UNCHANGED <<pModel, pConnected, pResults, pPending>>
             ELSE /\ pConnected' = pConnected \cup ({value} \ {0})
                  /\ pModel' = value
                  /\ pResults' = <<>>
                  /\ pPending' = TRUE
    /\ pOp' = "setModel"
    /\ pInvoked' = 0
    /\ UNCHANGED <<modelItems, pActive, pChildren, pInput, pDisposed, nextId>>
    /\ PalFrame

\* set model(value)
SetModel ==
    /\ ~pDisposed
    /\ \E value \in {0} \cup PalModels :
          /\ pArg' = value
          /\ IF pModel = value
             THEN UNCHANGED <<pModel, pConnected, pResults, pPending>>
             ELSE /\ pConnected' = (pConnected \ {pModel}) \cup ({value} \ {0})
                  /\ pModel' = value
                  /\ pResults' = <<>>
                  /\ pPending' = TRUE
    /\ pOp' = "setModel"
    /\ pInvoked' = 0
    /\ UNCHANGED <<modelItems, pActive, pChildren, pInput, pDisposed, nextId>>
    /\ PalFrame

\* a model adds an item and emits changed; _onModelChanged of a connected
\* palette calls update()
ModelAddItem ==
    /\ nextId <= MaxPalIds
    /\ \E m \in PalModels, options \in PalOptions :
          /\ modelItems' = [modelItems EXCEPT
                               ![m] = Append(@, NewItem(nextId, options))]
          /\ pArg' = m
          /\ pPending' = (pPending \/ m \in pConnected)
    /\ nextId' = nextId + 1
    /\ pOp' = "changed"
    /\ pInvoked' = 0
    /\ UNCHANGED <<pModel, pConnected, pResults, pActive, pChildren, pInput,
                   pDisposed>>
    /\ PalFrame

\* a model with items is cleared and emits changed
ModelClearItems ==
    /\ \E m \in PalModels :
          /\ modelItems[m] # <<>>
          /\ modelItems' = [modelItems EXCEPT ![m] = <<>>]
          /\ pArg' = m
          /\ pPending' = (pPending \/ m \in pConnected)
    /\ pOp' = "changed"
    /\ pInvoked' = 0
    /\ UNCHANGED <<pModel, pConnected, pResults, pActive, pChildren, pInput,
                   pDisposed, nextId>>
    /\ PalFrame

\* the user edits the input node; the 'input' event calls update()
TypeInput ==
    /\ ~pDisposed
    /\ \E value \in PalInputs :
          /\ pInput' = value
          /\ pArg' = value
    /\ pPending' = TRUE
    /\ pOp' = "input"
    /\ pInvoked' = 0
    /\ UNCHANGED <<modelItems, pModel, pConnected, pResults, pActive,
                   pChildren, pDisposed, nextId>>
    /\ PalFrame

\* activateFirst(ActivationTarget.Command) replaced by activateFirst().
FirstToActivateAny(results) == 0

\* the index onUpdateRequest activates when there is query text
FirstToActivate(results) == FindIndex(results, "Command")

\* onUpdateRequest: processing of a posted update request
ProcessUpdate ==
    /\ pPending
    /\ pPending' = FALSE
    /\ IF pModel = 0
       THEN /\ pResults' = pResults
            /\ pChildren' = 0
            /\ pActive' = -1
       ELSE LET query == CommandPaletteSplitQuery(pInput)
                results == Search(modelItems[pModel], query.category,
                                  query.text)
            IN  /\ pResults' = results
                /\ pChildren' = Len(results)
                /\ pActive' =
                      IF Len(results) # 0
                         /\ (query.category # <<>> \/ query.text # <<>>)
                      THEN Activate(FirstToActivate(results), Len(results))
                      ELSE -1
    /\ pOp' = "update"
    /\ pArg' = <<>>
    /\ pInvoked' = 0
    /\ UNCHANGED <<modelItems, pModel, pConnected, pInput, pDisposed, nextId>>
    /\ PalFrame

\* what only the activation methods change is _activeIndex
ActivationFrame ==
    /\ pInvoked' = 0
    /\ UNCHANGED <<modelItems, pModel, pConnected, pResults, pChildren,
                   pInput, pPending, pDisposed, nextId>>
    /\ PalFrame

ActivateFirst ==
    /\ ~pDisposed
    /\ \E target \in Targets :
          /\ pArg' = target
          /\ pActive' = Activate(IF target = "Any" THEN 0
                                 ELSE FindIndex(pResults, target), pChildren)
    /\ pOp' = "activateFirst"
    /\ ActivationFrame

ActivateLast ==
    /\ ~pDisposed
    /\ \E target \in Targets :
          /\ pArg' = target
          /\ pActive' = Activate(IF target = "Any" THEN Len(pResults) - 1
                                 ELSE RFindIndex(pResults, target), pChildren)
    /\ pOp' = "activateLast"
    /\ ActivationFrame

ActivateNext ==
    /\ ~pDisposed
    /\ \E target \in Targets :
          LET j == pActive
              n == Len(pResults)
          IN  /\ pArg' = target
              /\ pActive' = Activate(
                    IF target = "Any" THEN (IF j + 1 >= n THEN 0 ELSE j + 1)
                    ELSE FindIndexWrap(pResults, target, j), pChildren)
    /\ pOp' = "activateNext"
    /\ ActivationFrame

ActivatePrevious ==
    /\ ~pDisposed
    /\ \E target \in Targets :
          LET j == pActive
              n == Len(pResults)
          IN  /\ pArg' = target
              /\ pActive' = Activate(
                    IF target = "Any" THEN (IF j - 1 < 0 THEN n - 1 ELSE j - 1)
                    ELSE RFindIndexWrap(pResults, target, j), pChildren)
    /\ pOp' = "activatePrevious"
    /\ ActivationFrame

\* triggerActive with the given value of _activeIndex: a header rewrites the
\* input and calls update(), a command has its handler invoked
Trigger(active) ==
    IF active < 0 \/ active >= Len(pResults)
    THEN /\ pInvoked' = 0
         /\ UNCHANGED <<pInput, pPending>>
    ELSE LET result == pResults[active + 1]
         IN  IF result.type = "Header"
             THEN LET query == CommandPaletteSplitQuery(pInput)
                      desired == Trim(result.category)
                      computed == IF desired = query.category THEN <<>>
                                  ELSE desired
                  IN  /\ pInput' = CommandPaletteJoinQuery(computed,
                                                           query.text)
                      /\ pPending' = TRUE
                      /\ pInvoked' = 0
             ELSE /\ pInvoked' = result.id
                  /\ UNCHANGED <<pInput, pPending>>

TriggerActive ==
    /\ ~pDisposed
    /\ Trigger(pActive)
    /\ pOp' = "triggerActive"
    /\ pArg' = <<>>
    /\ UNCHANGED <<modelItems, pModel, pConnected, pResults, pActive,
                   pChildren, pDisposed, nextId>>
    /\ PalFrame

\* _evtClick on a child of the content node: _activate, then triggerActive
Click ==
    /\ ~pDisposed
    /\ \E index \in 0..(pChildren - 1) :
          /\ pArg' = index
          /\ pActive' = Activate(index, pChildren)
          /\ Trigger(Activate(index, pChildren))
    /\ pOp' = "click"
    /\ UNCHANGED <<modelItems, pModel, pConnected, pResults, pChildren,
                   pDisposed, nextId>>
    /\ PalFrame

\* dispose; super.dispose() drops the palette's signal connections and its
\* posted messages
Dispose ==
    /\ ~pDisposed
    /\ pModel' = 0
    /\ pResults' = <<>>
    /\ pConnected' = {}
    /\ pPending' = FALSE
    /\ pDisposed' = TRUE
    /\ pOp' = "dispose"
    /\ pArg' = <<>>
    /\ pInvoked' = 0
    /\ UNCHANGED <<modelItems, pActive, pChildren, pInput, nextId>>
    /\ PalFrame

NextPal ==
    \/ SetModel
    \/ ModelAddItem
    \/ ModelClearItems
    \/ TypeInput
    \/ ProcessUpdate
    \/ ActivateFirst
    \/ ActivateLast
    \/ ActivateNext
    \/ ActivatePrevious
    \/ TriggerActive
    \/ Click
    \/ Dispose

SpecPal == InitPal /\ [][NextPal]_vars

----------------------------------------------------------------------------
(* Properties of StringSearch, checked under SpecStr *)

Matched == match # NoCall
Marked == marked # NotCalled

\* q is a subsequence of s: an order-preserving embedding exists
IsSubsequence(q, s) ==
    \E ix \in IncreasingIndices(Len(s)) :
        /\ Len(ix) = Len(q)
        /\ \A p \in 1..Len(q) : s[ix[p] + 1] = q[p]

IsPrefix(q, s) == Len(q) <= Len(s) /\ SubSeq(s, 1, Len(q)) = q

RECURSIVE SumSq(_, _)
SumSq(ix, k) == IF k = 0 THEN 0 ELSE ix[k] * ix[k] + SumSq(ix, k - 1)

\* 0*0 + 1*1 + ... + (n-1)*(n-1)
RECURSIVE SumSqBelow(_)
SumSqBelow(n) == IF n = 0 THEN 0 ELSE (n - 1) * (n - 1) + SumSqBelow(n - 1)

\* C1: sumOfSquares returns a match exactly when queryText is a subsequence
\* of sourceText; it returns null exactly when no embedding exists.
C1_MatchIffSubsequence ==
    Matched => ((match # Null) <=> IsSubsequence(queryText, sourceText))

\* every query character occurs in the source, yet the order is wrong
C1_Witness ==
    /\ Matched /\ match = Null
    /\ queryText # <<>>
    /\ \A p \in 1..Len(queryText) :
          \E k \in 1..Len(sourceText) : sourceText[k] = queryText[p]

\* C2: the indices of a match have one entry per query character, are
\* strictly increasing, in bounds of the source and point at equal characters.
C2_IndicesWellFormed ==
    (Matched /\ match # Null) =>
        /\ Len(match.indices) = Len(queryText)
        /\ \A p \in 1..(Len(match.indices) - 1) :
              match.indices[p] < match.indices[p + 1]
        /\ \A p \in 1..Len(match.indices) :
              /\ match.indices[p] >= 0
              /\ match.indices[p] < Len(sourceText)
              /\ sourceText[match.indices[p] + 1] = queryText[p]

C2_Witness ==
    /\ Matched /\ match # Null
    /\ Len(queryText) >= 2
    /\ \E p \in 1..(Len(match.indices) - 1) :
          match.indices[p + 1] > match.indices[p] + 1

\* C3: each query character is placed at the leftmost occurrence strictly
\* after the previous matched index, and the score is the sum of the squares
\* of the matched indices, hence never negative.
C3_GreedyLeftmostAndScore ==
    (Matched /\ match # Null) =>
        /\ \A p \in 1..Len(match.indices) :
              LET lo == IF p = 1 THEN 0 ELSE match.indices[p - 1] + 1
              IN  /\ match.indices[p] >= lo
                  /\ \A k \in lo..(match.indices[p] - 1) :
                        sourceText[k + 1] # queryText[p]
        /\ match.score = SumSq(match.indices, Len(match.indices))
        /\ match.score >= 0

\* a match with a positive score whose last character also occurs later
C3_Witness ==
    /\ Matched /\ match # Null
    /\ match.score > 0
    /\ Len(match.indices) >= 2
    /\ \E k \in 1..Len(sourceText) :
          /\ k - 1 > match.indices[Len(match.indices)]
          /\ sourceText[k] = queryText[Len(queryText)]

\* C4: an empty query always matches, with score 0 and no indices.
C4_EmptyQueryMatches ==
    (Matched /\ queryText = <<>>) =>
        match = [score |-> 0, indices |-> <<>>]

C4_Witness ==
    /\ Matched /\ queryText = <<>>
    /\ sourceText = <<>>

\* C5 as stated: a query that is a prefix of the source gets score 0.
C5_PrefixScoresZero ==
    (Matched /\ IsPrefix(queryText, sourceText)) =>
        (match # Null /\ match.score = 0)

\* C5 amended: a query that is a prefix of the source is matched at the
\* indices 0 .. len(q)-1 and scores 0*0 + 1*1 + ... + (len(q)-1)^2, which is
\* the least score any match of a query of that length can have.
C5_PrefixScoresMinimum ==
    /\ (Matched /\ IsPrefix(queryText, sourceText)) =>
          /\ match # Null
          /\ match.indices = [p \in 1..Len(queryText) |-> p - 1]
          /\ match.score = SumSqBelow(Len(queryText))
    /\ (Matched /\ match # Null) =>
          match.score >= SumSqBelow(Len(queryText))

C5_Witness ==
    /\ Matched /\ IsPrefix(queryText, sourceText)
    /\ Len(queryText) = 3
    /\ match.score = 5

\* The text the highlighter is expected to produce: position by position,
\* <em> opens before an index whose predecessor is not an index, </em> closes
\* after an index whose successor is not an index.
RECURSIVE MarkedFrom(_, _, _)
MarkedFrom(s, I, p) ==
    IF p >= Len(s) THEN <<>>
    ELSE (IF p \in I /\ (p - 1) \notin I THEN <<PREFIX>> ELSE <<>>)
         \o <<s[p + 1]>>
         \o (IF p \in I /\ (p + 1) \notin I THEN <<SUFFIX>> ELSE <<>>)
         \o MarkedFrom(s, I, p + 1)

Range(f) == {f[x] : x \in DOMAIN f}

\* C6: highlight wraps every maximal run of consecutive indices in exactly
\* one <em>...</em> pair and leaves all characters in place; with no indices
\* the result is the source text itself.
C6_HighlightRuns ==
    Marked =>
        /\ marked = MarkedFrom(sourceText, Range(hlIndices), 0)
        /\ hlIndices = <<>> => marked = sourceText

\* a run of two indices and a separate single index
C6_Witness ==
    /\ Marked
    /\ \E p \in 1..(Len(hlIndices) - 1) : hlIndices[p + 1] = hlIndices[p] + 1
    /\ \E p \in 1..(Len(hlIndices) - 1) : hlIndices[p + 1] > hlIndices[p] + 1

----------------------------------------------------------------------------
(* Properties of StandardPaletteModel.search, checked under Spec *)

Searched == op = "search"

ItemSet == {items[p] : p \in 1..Len(items)}

Positions(type) == {p \in 1..Len(ret) : ret[p].type = type}

\* the category query as the matcher sees it, and the category match
CategoryMatches(category, query) ==
    LET nq == NormalizeQueryText(query)
    IN  nq = <<>> \/ IsSubsequence(nq, category)

\* the text query as the matcher sees it, and the text match
TextMatches(text, query) ==
    LET nq == NormalizeQueryText(query)
    IN  nq = <<>> \/ IsSubsequence(nq, ToLowerCase(text))

\* the position of the nearest Header before position p, 0 if there is none
HeaderBefore(p) ==
    LET hs == {h \in Positions("Header") : h < p}
    IN  IF hs = {} THEN 0 ELSE Max(hs)

\* C7: with a non-empty category query, an item whose category does not
\* match the query never appears as a Command, whatever its text and the
\* text query, and no Header carries its category.
C7_CategoryExclusion ==
    (Searched /\ args[1] # <<>>) =>
        \A it \in ItemSet :
            ~CategoryMatches(it.category, args[1]) =>
                /\ \A p \in Positions("Command") : ret[p].id # it.id
                /\ \A p \in Positions("Header") : ret[p].category # it.category

\* an excluded item whose text the text query matches at index 0, next to
\* an item that is found
C7_Witness ==
    /\ Searched /\ args[1] # <<>> /\ ret # <<>>
    /\ NormalizeQueryText(args[2]) # <<>>
    /\ \E it \in ItemSet :
          /\ ~CategoryMatches(it.category, args[1])
          /\ IsPrefix(NormalizeQueryText(args[2]), ToLowerCase(it.text))

\* C8: search returns exactly one Command per item of the registry whose
\* category matches the category query and whose lower-cased text contains
\* the normalized text query as a subsequence, and no other Command; removed
\* items never appear and an empty registry gives an empty result.
C8_ExactlyTheMatchingItems ==
    Searched =>
        /\ \A it \in ItemSet :
              (CategoryMatches(it.category, args[1])
                    /\ TextMatches(it.text, args[2]))
              <=> (\E p \in Positions("Command") : ret[p].id = it.id)
        /\ \A p, q \in Positions("Command") : ret[p].id = ret[q].id => p = q
        /\ \A p \in Positions("Command") : \E it \in ItemSet : it.id = ret[p].id
        /\ items = <<>> => ret = <<>>

\* after a removal: one item is found, one fails the text query only
C8_Witness ==
    /\ Searched
    /\ Len(items) < nextId - 1
    /\ Positions("Command") # {}
    /\ \E it \in ItemSet :
          /\ CategoryMatches(it.category, args[1])
          /\ ~TextMatches(it.text, args[2])

\* C9: a result is a concatenation of blocks, one Header followed by at
\* least one Command: it starts with a Header, no Header is last or followed
\* by a Header, no two Headers carry the same category, and every Command is
\* an item of the category of the nearest preceding Header.
C9_HeaderCommandBlocks ==
    Searched =>
        /\ ret # <<>> => ret[1].type = "Header"
        /\ \A p \in Positions("Header") :
              p < Len(ret) /\ ret[p + 1].type = "Command"
        /\ \A p, q \in Positions("Header") :
              ret[p].category = ret[q].category => p = q
        /\ \A p \in Positions("Command") :
              /\ HeaderBefore(p) # 0
              /\ \E it \in ItemSet :
                    /\ it.id = ret[p].id
                    /\ it.category = ret[HeaderBefore(p)].category

\* a category matches but all its items fail the text query, while another
\* category is rendered
C9_Witness ==
    /\ Searched /\ ret # <<>>
    /\ \E it \in ItemSet :
          /\ CategoryMatches(it.category, args[1])
          /\ \A other \in ItemSet :
                other.category = it.category => ~TextMatches(other.text, args[2])

\* the score of a query against a string: 0 for an empty normalized query
QueryScore(string, query) ==
    LET nq == NormalizeQueryText(query)
    IN  IF nq = <<>> THEN 0 ELSE SumSq(SumOfSquares(string, nq).indices, Len(nq))

TotalScore(it, category, text) ==
    QueryScore(it.category, category) + QueryScore(ToLowerCase(it.text), text)

ItemOf(id) == CHOOSE it \in ItemSet : it.id = id

\* C10: the total score of a matched item is its category's match score plus
\* its text match score, and inside every block the Commands are in ascending
\* total score, equal scores in locale order of the item text.
C10_ScoreSumAndBlockOrder ==
    Searched =>
        /\ LET scores == MatchText(items, args[2], MatchCategory(items, args[1]))
           IN  \A p \in 1..Len(scores) :
                  scores[p].score = TotalScore(scores[p].item, args[1], args[2])
        /\ \A p \in Positions("Command") :
              (p < Len(ret) /\ ret[p + 1].type = "Command") =>
                  LET a == ItemOf(ret[p].id)
                      b == ItemOf(ret[p + 1].id)
                      sa == TotalScore(a, args[1], args[2])
                      sb == TotalScore(b, args[1], args[2])
                  IN  /\ sa <= sb
                      /\ sa = sb => LocaleCompare(a.text, b.text) <= 0

\* a block whose two commands differ in score, with a positive category
\* score and a positive text score
C10_Witness ==
    /\ Searched
    /\ \E p \in Positions("Command") :
          /\ p < Len(ret) /\ ret[p + 1].type = "Command"
          /\ QueryScore(ItemOf(ret[p].id).category, args[1]) > 0
          /\ TotalScore(ItemOf(ret[p].id), args[1], args[2])
                < TotalScore(ItemOf(ret[p + 1].id), args[1], args[2])

\* the Commands of the block that the Header at position h opens
BlockCommands(h) == {p \in Positions("Command") : HeaderBefore(p) = h}

\* the least total score of the items of the block at h
BestScore(h) ==
    Min({TotalScore(ItemOf(ret[p].id), args[1], args[2]) : p \in BlockCommands(h)})

\* the best item of block h1 comes before the best item of block h2 in the
\* order by (total score, category, text)
BlockBefore(h1, h2) ==
    \/ BestScore(h1) < BestScore(h2)
    \/ /\ BestScore(h1) = BestScore(h2)
       /\ LocaleCompare(ret[h1].category, ret[h2].category) < 0

\* C11: the blocks of a result appear in the order in which their categories
\* first appear among the matched items sorted by (total score, category,
\* text), also for category names that look like non-negative integers.
C11_BlocksInFirstAppearanceOrder ==
    Searched =>
        \A h1, h2 \in Positions("Header") : h1 < h2 => BlockBefore(h1, h2)

\* the text a Header shows for a category matched by the normalized query nq
HeaderTextFor(category, nq) ==
    IF nq = <<>> THEN category
    ELSE MarkedFrom(category, Range(SumOfSquares(category, nq).indices), 0)

RECURSIVE Unmarked(_)
Unmarked(text) ==
    IF text = <<>> THEN <<>>
    ELSE IF Head(text) \in {PREFIX, SUFFIX} THEN Unmarked(Tail(text))
         ELSE <<Head(text)>> \o Unmarked(Tail(text))

\* text queries to compare a search with: those of the model and some that
\* differ from them in case and whitespace only
TextVariants ==
    TextQueries \cup { <<"B">>, <<" ", "b", " ">>, <<"a", "B">>, <<"a", "b">> }

SameLetters(t1, t2) ==
    ToLowerCase(RemoveSpaces(t1)) = ToLowerCase(RemoveSpaces(t2))

\* C13: the text query is matched ignoring whitespace and letter case: two
\* text queries that are equal after removing whitespace and lower-casing
\* give identical results, and the text of every Command without its markers
\* is the original text of the item.
C13_TextQueryIgnoresCaseAndSpace ==
    Searched =>
        /\ \A t \in TextVariants :
              SameLetters(t, args[2]) => Search(items, args[1], t) = ret
        /\ \A p \in Positions("Command") :
              Unmarked(ret[p].text) = ItemOf(ret[p].id).text

\* a query that is not in normalized form finds an item and marks its text
C13_Witness ==
    /\ Searched
    /\ args[2] # ToLowerCase(RemoveSpaces(args[2]))
    /\ ToLowerCase(RemoveSpaces(args[2])) # <<>>
    /\ \E p \in Positions("Command") : PREFIX \in Range(ret[p].text)

\* the words of a string: its maximal runs of non-space characters
RECURSIVE WordsFrom(_, _, _)
WordsFrom(s, word, words) ==
    IF s = <<>> THEN (IF word = <<>> THEN words ELSE Append(words, word))
    ELSE IF Head(s) = " "
         THEN WordsFrom(Tail(s), <<>>,
                        IF word = <<>> THEN words ELSE Append(words, word))
         ELSE WordsFrom(Tail(s), Append(word, Head(s)), words)

Words(s) == WordsFrom(s, <<>>, <<>>)

RECURSIVE JoinWords(_)
JoinWords(words) ==
    IF words = <<>> THEN <<>>
    ELSE IF Len(words) = 1 THEN words[1]
    ELSE words[1] \o <<" ">> \o JoinWords(Tail(words))

\* two given categories differ in case and in surrounding or repeated
\* whitespace only
SameCategoryGiven(c1, c2) == Words(ToLowerCase(c1)) = Words(ToLowerCase(c2))

\* the items created by the last operation with the options they were given
Created ==
    IF op = "addItem" THEN {<<ret, args[1]>>}
    ELSE IF op = "addItems"
    THEN {<<ret[p], args[1][p]>> : p \in 1..Len(ret)}
    ELSE {}

\* C14: the category of an item is normalized at construction (trimmed,
\* whitespace runs collapsed to one space, lower-cased) and is stored in a
\* form that normalization leaves unchanged; categories given with different
\* case or whitespace become equal, and items of equal category are placed
\* under one single Header.
C14_CategoryNormalizedOnce ==
    /\ \A c \in Created :
          c[1].category = JoinWords(Words(ToLowerCase(c[2].category)))
    /\ \A c, d \in Created :
          SameCategoryGiven(c[2].category, d[2].category)
              => c[1].category = d[1].category
    /\ \A it \in ItemSet : NormalizeCategory(it.category) = it.category
    /\ Searched =>
          \A p, q \in Positions("Command") :
              ItemOf(ret[p].id).category = ItemOf(ret[q].id).category
                  => HeaderBefore(p) = HeaderBefore(q)

\* two items created from categories that differ in case and whitespace
C14_Witness ==
    /\ op = "addItems"
    /\ \E c, d \in Created :
          /\ c[2].category # d[2].category
          /\ SameCategoryGiven(c[2].category, d[2].category)
          /\ c[2].category # c[1].category

BothQueriesEmpty == RemoveSpaces(args[1]) = <<>> /\ RemoveSpaces(args[2]) = <<>>

\* all of C15 but the order of the Headers
C15_AllButHeaderOrder ==
    /\ \A it \in ItemSet :
          Cardinality({p \in Positions("Command") : ret[p].id = it.id}) = 1
    /\ LET scores == MatchText(items, args[2], MatchCategory(items, args[1]))
       IN  \A p \in 1..Len(scores) : scores[p].score = 0
    /\ \A p \in 1..Len(ret) : Range(ret[p].text) \cap {PREFIX, SUFFIX} = {}
    /\ \A p \in Positions("Command") :
          (p < Len(ret) /\ ret[p + 1].type = "Command") =>
              LocaleCompare(ItemOf(ret[p].id).text,
                            ItemOf(ret[p + 1].id).text) <= 0

\* C15: with both queries empty or whitespace only, every item appears
\* exactly once as a Command with total score 0, no text carries highlight
\* markers, the Headers are in ascending locale order of category and the
\* Commands of a category in ascending locale order of item text.
C15_EmptyQueriesListEverything ==
    (Searched /\ BothQueriesEmpty) =>
        /\ C15_AllButHeaderOrder
        /\ \A h1, h2 \in Positions("Header") :
              h1 < h2 => LocaleCompare(ret[h1].category, ret[h2].category) < 0

----------------------------------------------------------------------------
(* Properties of the registry operations, checked under Spec *)

Ids(its) == {its[p].id : p \in 1..Len(its)}

\* C16: search is read-only and deterministic: a call leaves the item
\* sequence unchanged and emits no changed notification, and a second call
\* with the same query right after a first one returns an equal result.
C16_SearchReadOnlyDeterministic ==
    [][op' = "search" =>
          /\ items' = items
          /\ emitted' = 0
          /\ (op = "search" /\ args' = args) => ret' = ret]_vars

\* a search that found something in a registry whose items are not in
\* sorted order
C16_Witness ==
    /\ Searched /\ ret # <<>>
    /\ Len(items) >= 2
    /\ LocaleCompare(items[1].category, items[2].category) > 0

\* C17: every registry operation that changes the membership emits exactly
\* one changed notification, also when it adds or removes several items.
C17_OneNotificationPerChange ==
    [][/\ op' = "addItem" => emitted' = 1
       /\ (op' = "addItems" /\ Len(args'[1]) >= 1) => emitted' = 1
       /\ (op' = "removeItem" /\ args'[1] \in Ids(items)) => emitted' = 1
       /\ (op' = "removeItems" /\ args'[1] \cap Ids(items) # {})
             => emitted' = 1
       /\ (op' = "clearItems" /\ items # <<>>) => emitted' = 1]_vars

\* a batch of two items was added
C17_Witness ==
    /\ op = "addItems" /\ Len(ret) = 2
    /\ emitted = 1

\* C18: removeItem of an item that is not in the registry, removeItems of
\* items none of which is in the registry and clearItems on an empty
\* registry leave the item sequence unchanged and emit nothing.
C18_NoOpsAreSilent ==
    [][(\/ op' = "removeItem" /\ args'[1] \notin Ids(items)
        \/ op' = "removeItems" /\ args'[1] \cap Ids(items) = {}
        \/ op' = "clearItems" /\ items = <<>>)
          => (items' = items /\ emitted' = 0)]_vars

\* removeItems was called on a non-empty registry with items that are not
\* in it
C18_Witness ==
    /\ op = "removeItems" /\ args[1] # {}
    /\ items # <<>>
    /\ emitted = 0

\* C19: a changed notification is emitted only by an operation after which
\* the item sequence differs from the one before it.
C19_NotifyOnlyOnChange ==
    [][emitted' > 0 => items' # items]_vars

----------------------------------------------------------------------------
(* Properties of items(), checked under SpecSnap *)

CallerOps == {"push", "splice", "truncate"}

RegistryOps == {"addItem", "addItems", "removeItem", "removeItems", "clearItems"}

\* C20: items() returns a snapshot that shares no structure with the
\* registry: it is a different array with the registry's elements; a change
\* of the returned array leaves the registry's item sequence and its search
\* results unchanged, and a later registry operation leaves the snapshot
\* unchanged.
C20_SnapshotIsACopy ==
    [][/\ snapOp' = "items" =>
             /\ snapRef' # itemsRef'
             /\ heap'[snapRef'] = heap[itemsRef]
             /\ heap'[itemsRef'] = heap[itemsRef]
       /\ snapOp' \in CallerOps =>
             /\ heap'[itemsRef'] = heap[itemsRef]
             /\ \A c \in CategoryQueries, t \in {<<>>, <<"b">>} :
                   Search(heap'[itemsRef'], c, t) = Search(heap[itemsRef], c, t)
       /\ (snapOp' \in RegistryOps /\ snapRef # 0) =>
             /\ snapRef' = snapRef
             /\ heap'[snapRef'] = heap[snapRef]]_vars

\* the registry was cleared after a snapshot was taken; the snapshot still
\* holds the items
C20_Witness ==
    /\ snapOp = "clearItems"
    /\ snapRef # 0
    /\ Len(heap[snapRef]) >= 2
    /\ heap[itemsRef] = <<>>

----------------------------------------------------------------------------
(* Properties of the item sequence, checked under Spec *)

IdSeq(its) == [p \in 1..Len(its) |-> its[p].id]

Without(its, ids) == SelectSeq(its, LAMBDA it : it.id \notin ids)

StrictlyIncreasing(seq) ==
    \A p, q \in 1..Len(seq) : p < q => seq[p] < seq[q]

\* C21: the item sequence holds the items added and not since removed, in
\* insertion order: addItem and addItems append the new items at the end in
\* the given order, removeItem and removeItems take out exactly the given
\* items and keep the order of the others.
C21_InsertionOrderKept ==
    [][/\ StrictlyIncreasing(IdSeq(items'))
       /\ op' = "addItem" =>
             /\ Len(items') = Len(items) + 1
             /\ SubSeq(items', 1, Len(items)) = items
             /\ items'[Len(items')].id \notin Ids(items)
             /\ items'[Len(items')].text = args'[1].text
       /\ op' = "addItems" =>
             /\ Len(items') = Len(items) + Len(args'[1])
             /\ SubSeq(items', 1, Len(items)) = items
             /\ \A k \in 1..Len(args'[1]) :
                   /\ items'[Len(items) + k].id \notin Ids(items)
                   /\ items'[Len(items) + k].text = args'[1][k].text
       /\ op' = "removeItem" => items' = Without(items, {args'[1]})
       /\ op' = "removeItems" => items' = Without(items, args'[1])]_vars

\* the first of three items was removed; the other two kept their order
C21_Witness ==
    /\ op = "removeItem"
    /\ args = <<1>>
    /\ IdSeq(items) = <<2, 3>>

\* C22: changed is emitted after the mutation is complete and before the
\* operation returns: whatever a subscriber reads from the model during the
\* notification of addItem, addItems, removeItem, removeItems or clearItems
\* is the item sequence the operation leaves behind, and so are the results
\* of a search it runs then.
C22_SubscriberSeesResult ==
    [][/\ Len(observed') = emitted'
       /\ \A k \in 1..Len(observed') :
             /\ observed'[k] = items'
             /\ Search(observed'[k], <<>>, <<"b">>)
                   = Search(items', <<>>, <<"b">>)]_vars

\* a subscriber was notified by a removeItems that left an item behind
C22_Witness ==
    /\ op = "removeItems"
    /\ emitted = 1
    /\ observed = <<items>>
    /\ items # <<>>

----------------------------------------------------------------------------
(* Properties of splitQuery and joinQuery, checked under SpecQry *)

HasColon(s) == \E p \in 1..Len(s) : s[p] = ":"

\* C23: joinQuery followed by splitQuery is the identity up to trimming:
\* for a category and a text without a colon the split of their join is
\* the trimmed category and the trimmed text, also when one or both are
\* empty or blank.
C23_SplitOfJoinTrims ==
    (qOp = "splitJoined" /\ ~HasColon(qArgs[1]) /\ ~HasColon(qArgs[2]))
        => qRet = [category |-> Trim(qArgs[1]), text |-> Trim(qArgs[2])]

\* a blank category and a padded text went through joinQuery and splitQuery
C23_Witness ==
    /\ qOp = "splitJoined"
    /\ qArgs = << <<" ">>, <<" ", "a", " ">> >>
    /\ qRet = [category |-> <<>>, text |-> <<"a">>]

ColonFree == StringsUpTo(QueryAlphabet \ {":"}, MaxPartLen)

\* C24: splitQuery accepts both delimiter forms: a query "category: text"
\* and a query ":category: text" are both split into the trimmed category
\* and the trimmed text, and a query without a colon is split into the empty
\* category and the trimmed query as text.
C24_BothDelimiterForms ==
    qOp = "splitQuery" =>
        LET query == qArgs[1]
        IN  /\ ~HasColon(query) =>
                  qRet = [category |-> <<>>, text |-> Trim(query)]
            /\ \A c, t \in ColonFree :
                  (Trim(c) # <<>> /\ (query = c \o <<":">> \o t
                                       \/ query = <<":">> \o c \o <<":">> \o t))
                      => qRet = [category |-> Trim(c), text |-> Trim(t)]

----------------------------------------------------------------------------
(* Properties of highlight outside its contract, checked under SpecHl *)

OutOfBounds(ix, src) == \E p \in 1..Len(ix) : ix[p] < 0 \/ ix[p] >= Len(src)

\* C25: highlight called with an index that is negative or not below the
\* length of the source text raises an error instead of returning a string.
C25_OutOfBoundsThrows ==
    (marked # NotCalled /\ OutOfBounds(hlIndices, sourceText))
        => marked = Thrown

----------------------------------------------------------------------------
(* Properties of the CommandPalette, checked under SpecPal *)

\* the query the palette reads from its input node
InputQuery == CommandPaletteSplitQuery(pInput)

ActiveResult == pResults[pActive + 1]

HasActive == pActive >= 0 /\ pActive < Len(pResults)

\* C26: triggerActive on an active Header toggles the header's category in
\* the query: if the input's category is the header's category, the new
\* input has no category, otherwise it has the header's category; the text
\* of the query is the same before and after. With no active item
\* triggerActive changes nothing and invokes no handler.
C26_HeaderTogglesCategory ==
    [][pOp' = "triggerActive" =>
          /\ (HasActive /\ ActiveResult.type = "Header") =>
                /\ InputQuery'.text = InputQuery.text
                /\ InputQuery'.category =
                      IF InputQuery.category = ActiveResult.category
                      THEN <<>> ELSE ActiveResult.category
                /\ pInvoked' = 0
          /\ pActive = -1 =>
                /\ pInvoked' = 0
                /\ UNCHANGED <<pInput, pPending, pResults, pActive, pModel,
                               pChildren, modelItems>>]_vars

\* C27: activateNext and activatePrevious with the target Any move the
\* active index by one with wrap-around over n > 0 results: activateNext
\* from j activates j + 1, or 0 when j is the last index or nothing is
\* active; activatePrevious activates j - 1, or n - 1 when j is 0 or nothing
\* is active; with no results no item becomes active.
C27_NextPreviousWrap ==
    [][LET n == Len(pResults)
           j == pActive
       IN  /\ (pOp' = "activateNext" /\ pArg' = "Any") =>
                 pActive' = IF n = 0 THEN -1
                            ELSE IF j = -1 \/ j = n - 1 THEN 0 ELSE j + 1
           /\ (pOp' = "activatePrevious" /\ pArg' = "Any") =>
                 pActive' = IF n = 0 THEN -1
                            ELSE IF j = -1 \/ j = 0 THEN n - 1 ELSE j - 1]_vars

Assigned(m) == m # 0

\* C28: processing an update request replaces the results by a fresh
\* search of the model for the category and text of the input and resets
\* the active index: it is -1 when there is no model, when the results are
\* empty or when category and text are both empty, and the index of the
\* first Command of the new results otherwise.
C28_UpdateReplacesResults ==
    [][pOp' = "update" =>
          /\ Assigned(pModel) =>
                pResults' = Search(modelItems[pModel], InputQuery.category,
                                   InputQuery.text)
          /\ IF \/ ~Assigned(pModel)
                \/ pResults' = <<>>
                \/ (InputQuery.category = <<>> /\ InputQuery.text = <<>>)
             THEN pActive' = -1
             ELSE /\ pActive' \in 0..(Len(pResults') - 1)
                  /\ pResults'[pActive' + 1].type = "Command"
                  /\ \A i \in 1..pActive' : pResults'[i].type # "Command"]_vars

\* an update with query text found two categories and activated the first
\* command, which comes after the first header
C28_Witness ==
    /\ pOp = "update"
    /\ pInput = <<"b">>
    /\ Len(pResults) = 4
    /\ pActive = 1

\* C29: assigning the model switches the change subscription: assigning the
\* current model does nothing; otherwise the palette is disconnected from
\* the old model and connected to the new one, its results are cleared and
\* an update is requested. A changed notification of the current model then
\* requests an update, one of another model requests none.
C29_ModelSwitchesSubscription ==
    [][/\ (pOp' = "setModel" /\ pArg' = pModel) =>
             UNCHANGED <<pModel, pConnected, pResults, pPending, pActive>>
       /\ (pOp' = "setModel" /\ pArg' # pModel) =>
             /\ pModel' = pArg'
             /\ pConnected' = {m \in PalModels : m = pArg'}
             /\ pResults' = <<>>
             /\ pPending'
       /\ (pOp' = "changed" /\ ~pDisposed) =>
             /\ pArg' = pModel => pPending'
             /\ pArg' # pModel => pPending' = pPending]_vars

\* model 2 replaced model 1, the update was processed, and then model 1
\* changed without an update being requested
C29_Witness ==
    /\ pOp = "changed"
    /\ pArg = 1
    /\ pModel = 2
    /\ modelItems[1] # <<>>
    /\ ~pPending
    /\ ~pDisposed

\* C30: in every state reachable by interleaving model assignment, model
\* changes, update requests, input, clicks, the activation methods,
\* triggerActive and dispose, the active index is -1 or a valid index into
\* the stored results.
C30_ActiveIndexValid ==
    pActive = -1 \/ (pActive >= 0 /\ pActive < Len(pResults))

====
